---- MODULE Spec2Model ----
(***************************************************************************)
(* deadlog: an instrumented reader/writer lock that emits START, ACQUIRED  *)
(* and RELEASED events to a sink (mutex.go, event.go, options.go), and an  *)
(* analyzer that replays the event stream (analyze/analyze.go).            *)
(*                                                                         *)
(* The specifications:                                                     *)
(*   Spec         any number of goroutines calling Lock, RLock, LockFunc,  *)
(*                RLockFunc, Unlock, RUnlock and the returned release      *)
(*                functions on two Mutex values that share one sink;       *)
(*   SpecAnalyze  deadlog analyze: Analyze reading an arbitrary stream     *)
(*                line by line, then the report and the exit status;       *)
(*   SpecEither   as Spec, on locks constructed with or without a sink;    *)
(*   SpecClients  goroutines that release their own hold once and          *)
(*                increment a counter under the exclusive lock, with the   *)
(*                scheduling that lets a waiting goroutine proceed;        *)
(*   SpecWire     an Event written as a JSON line and decoded again.       *)
(***************************************************************************)
EXTENDS Integers, Sequences, FiniteSets, TLC

VARIABLES
    name,        \* Mutex.name, per lock instance
    traceDepth,  \* Mutex.traceDepth, per lock instance
    logFunc,     \* Mutex.logFunc, per lock instance: "sink" or "nil"
    att,         \* the acquire calls made so far: locals id, lo.name and position
    holds,       \* state of each sync.RWMutex: the acquisitions whose hold is in place
    sink,        \* the events the sink has received, in order of delivery
    sinkAtt,     \* history: which acquire call each delivered event belongs to
    direct,      \* history: whether Unlock()/RUnlock() ever released a hold of the lock
    crashed,     \* the runtime stopped the program (unlock of an unlocked RWMutex)
    lines,       \* Analyze: the lines the scanner has returned so far
    starts,      \* Analyze: map key -> LockInfo
    acquires,    \* Analyze: map key -> LockInfo
    releases,    \* Analyze: set of keys
    result,      \* Analyze: the returned *Result (nil, or Stuck and Held)
    err,         \* Analyze: the returned error
    apc,         \* Analyze: "scan" while in the scanner loop, "done" after return
    counter,     \* application: the counter each lock guards (counter++ under the lock)
    work,        \* application: how far each caller's counter++ has come, and the value it read
    stdout,      \* deadlog analyze: the lines printed on standard output
    stderr,      \* deadlog analyze: the lines printed on standard error
    exit,        \* deadlog analyze: whether the process has exited, and its status
    event,       \* wire: the Event handed to the WriterLogger
    wire,        \* wire: the line the WriterLogger wrote
    decoded,     \* wire: the Event json.Unmarshal made of the line
    wpc          \* wire: "event", "written" or "read"

mutexVars == <<name, traceDepth, logFunc, att, holds, sink, sinkAtt, direct, crashed>>
analyzeVars == <<lines, starts, acquires, releases, result, err, apc>>
appVars == <<counter, work>>
cliVars == <<stdout, stderr, exit>>
wireVars == <<event, wire, decoded, wpc>>
vars == <<mutexVars, analyzeVars, appVars, cliVars, wireVars>>

-----------------------------------------------------------------------------
(* Bounds of the model *)

\* number of acquire calls (Lock, RLock, LockFunc, RLockFunc) in one run
MaxAttempts == 2
\* correlation ids are drawn from 1..MaxId (rand.IntN draws from a finite range too)
MaxId == 2
\* how often one release function may be invoked
MaxInvoke == 2
\* number of lines the scanner returns in one Analyze run
MaxLines == 3

Attempts == 1..MaxAttempts
Ids == 1..MaxId
Mutexes == {"m1", "m2"}
\* labels: empty, plain, and one containing the key separator
Names == {"", "b", "a|b"}
\* labels passed with WithLockName
OptNames == {"b", "a|b"}

-----------------------------------------------------------------------------
(* Event model: event.go *)

Kinds == {"WLOCK", "LOCK", "RWLOCK", "RLOCK"}
TrackedKinds == {"LOCK", "RLOCK"}
ExclusiveKinds == {"WLOCK", "LOCK"}
States == {"START", "ACQUIRED", "RELEASED"}

\* newEvent: ts is time.Now().UnixNano(); the clock is read as `now`
newEvent(typ, state, nm, id, trace, now) ==
    [Type |-> typ, State |-> state, Name |-> nm, ID |-> id, Trace |-> trace, Ts |-> now]

\* getCallerChain: an opaque call-chain string, empty when depth <= 0
getCallerChain(skip, depth) ==
    IF depth <= 0 THEN "" ELSE "caller:1"

-----------------------------------------------------------------------------
(* Wire form: one JSON object per line (event.go, struct tags of Event) *)

EmptyMap == [k \in {} |-> k]

MapPut(f, k, v) == [x \in (DOMAIN f) \cup {k} |-> IF x = k THEN v ELSE f[x]]

\* a label with a byte that is no valid UTF-8 (Go strings are byte strings),
\* and the same label with the Unicode replacement character in its place
InvalidUTF8 == "b[0xff]"
Replaced == "b[U+FFFD]"

\* encoding/json writes a string coerced to valid UTF-8: each invalid byte
\* becomes the Unicode replacement character
toValidUTF8(s) == IF s = InvalidUTF8 THEN Replaced ELSE s

\* slip: the timestamp is not written
Encode_DropsTs(e) ==
    [kind |-> "object",
     fields |-> LET base == [f \in {"type", "state", "name", "id"} |->
                                CASE f = "type" -> toValidUTF8(e.Type)
                                  [] f = "state" -> toValidUTF8(e.State)
                                  [] f = "name" -> toValidUTF8(e.Name)
                                  [] f = "id" -> e.ID]
                IN  IF e.Trace = "" THEN base ELSE MapPut(base, "trace", toValidUTF8(e.Trace))]

\* json.Encoder.Encode(e): every field is written, trace only when non-empty
Encode(e) ==
    [kind |-> "object",
     fields |-> LET base == [f \in {"type", "state", "name", "id", "ts"} |->
                                CASE f = "type" -> toValidUTF8(e.Type)
                                  [] f = "state" -> toValidUTF8(e.State)
                                  [] f = "name" -> toValidUTF8(e.Name)
                                  [] f = "id" -> e.ID
                                  [] f = "ts" -> e.Ts]
                IN  IF e.Trace = "" THEN base ELSE MapPut(base, "trace", toValidUTF8(e.Trace))]

\* json.Unmarshal(line, &e): a line that is no JSON object is an error; a key
\* that is absent leaves the field at its zero value
Unmarshal(line) ==
    IF line.kind # "object"
    THEN [err |-> TRUE, e |-> newEvent("", "", "", 0, "", 0)]
    ELSE LET f == line.fields
             str(k) == IF k \in DOMAIN f THEN f[k] ELSE ""
             int(k) == IF k \in DOMAIN f THEN f[k] ELSE 0
         IN  [err |-> FALSE,
              e |-> newEvent(str("type"), str("state"), str("name"), int("id"),
                             str("trace"), int("ts"))]

-----------------------------------------------------------------------------
(* Analyzer: analyze/analyze.go *)

\* slip: the id is left out of the key
Key_NoId(e) == e.Type \o "|" \o e.Name

\* fmt.Sprintf("%s|%s|%d", e.Type, e.Name, e.ID)
Key(e) == e.Type \o "|" \o e.Name \o "|" \o ToString(e.ID)

LockInfo(e) == [Type |-> e.Type, Name |-> e.Name, ID |-> e.ID, Trace |-> e.Trace]

\* the three maps before the first line is read
NewMaps == [starts |-> EmptyMap, acquires |-> EmptyMap, releases |-> {}]

\* slip: an entry already in the map is kept, the later event is dropped
Record_KeepsFirst(st, e) ==
    CASE e.State = "START" /\ Key(e) \notin DOMAIN st.starts ->
            [st EXCEPT !.starts = MapPut(st.starts, Key(e), LockInfo(e))]
      [] e.State = "ACQUIRED" /\ Key(e) \notin DOMAIN st.acquires ->
            [st EXCEPT !.acquires = MapPut(st.acquires, Key(e), LockInfo(e))]
      [] e.State = "RELEASED" ->
            [st EXCEPT !.releases = st.releases \cup {Key(e)}]
      [] OTHER -> st

\* switch e.State: record the event in the map of its phase
Record(st, e) ==
    CASE e.State = "START" ->
            [st EXCEPT !.starts = MapPut(st.starts, Key(e), LockInfo(e))]
      [] e.State = "ACQUIRED" ->
            [st EXCEPT !.acquires = MapPut(st.acquires, Key(e), LockInfo(e))]
      [] e.State = "RELEASED" ->
            [st EXCEPT !.releases = st.releases \cup {Key(e)}]
      [] OTHER -> st

\* one iteration of the scanner loop
ScanLine(st, line) ==
    IF line.kind = "empty" THEN st
    ELSE LET u == Unmarshal(line)
         IN  IF u.err THEN st ELSE Record(st, u.e)

RECURSIVE ScanAll(_, _)
ScanAll(st, ls) ==
    IF ls = <<>> THEN st ELSE ScanAll(ScanLine(st, Head(ls)), Tail(ls))

\* slip: started but never released
StuckMap_Released(st) ==
    [k \in {x \in DOMAIN st.starts : x \notin st.releases} |-> st.starts[k]]

\* started but never acquired
StuckMap(st) ==
    [k \in {x \in DOMAIN st.starts : x \notin DOMAIN st.acquires} |-> st.starts[k]]

\* acquired but never released
HeldMap(st) ==
    [k \in {x \in DOMAIN st.acquires : x \notin st.releases} |-> st.acquires[k]]

\* slip: the lists are returned as the range over the map built them
SortedByID_Unsorted(m) ==
    LET n == Cardinality(DOMAIN m)
        orders == {p \in [1..n -> DOMAIN m] : \A i, j \in 1..n : p[i] = p[j] => i = j}
    IN  {[i \in 1..n |-> m[p[i]]] : p \in orders}

\* range over a map (any order), then sort.Slice by ID (not stable): every
\* listing of the map's values in which the ids do not decrease
SortedByID(m) ==
    LET n == Cardinality(DOMAIN m)
        orders == {p \in [1..n -> DOMAIN m] : \A i, j \in 1..n : p[i] = p[j] => i = j}
        listed == {[i \in 1..n |-> m[p[i]]] : p \in orders}
    IN  {s \in listed : \A i \in 1..n : \A j \in i..n : s[i].ID <= s[j].ID}

\* what Analyze computes from the lines of a stream that is read to its end
Analyzed(ls) == ScanAll(NewMaps, ls)

\* the stream a WriterLogger sink has written
Written(events) == [i \in 1..Len(events) |-> Encode(events[i])]

-----------------------------------------------------------------------------
(* Instrumented lock: mutex.go, options.go *)

\* an acquire call that has not been made yet
NoAttempt == [pc |-> "none", typ |-> "", mu |-> "", name |-> "", id |-> 0, inv |-> 0, mid |-> 0]

\* the exclusive holder of lock m (at most one) and its shared holders
Writer(m) == {b \in holds : att[b].mu = m /\ att[b].typ \in ExclusiveKinds}
Readers(m) == {b \in holds : att[b].mu = m /\ att[b].typ \notin ExclusiveKinds}

\* a writer holds m, or has entered mu.Lock() and waits for the readers to leave:
\* sync.RWMutex admits no new reader and no second writer meanwhile
WriterBusy(m) ==
    \/ Writer(m) # {}
    \/ \E b \in Attempts : att[b].mu = m /\ att[b].pc = "pending"

\* slip: no test for a nil logFunc
emit_NoNilCheck(m, typ, state, id, nm, a) ==
    /\ sink' = Append(sink, newEvent(typ, state, nm, id,
                                     getCallerChain(4, traceDepth[m]), Len(sink) + 1))
    /\ sinkAtt' = Append(sinkAtt, a)

\* slip: the event is handed to the sink twice
emit_Twice(m, typ, state, id, nm, a) ==
    IF logFunc[m] = "nil"
    THEN UNCHANGED <<sink, sinkAtt>>
    ELSE /\ sink' = Append(Append(sink, newEvent(typ, state, nm, id,
                                                 getCallerChain(4, traceDepth[m]), Len(sink) + 1)),
                           newEvent(typ, state, nm, id,
                                    getCallerChain(4, traceDepth[m]), Len(sink) + 2))
         /\ sinkAtt' = Append(Append(sinkAtt, a), a)

\* Mutex.emit: nothing without a sink, else one event with the trace and the time
emit(m, typ, state, id, nm, a) ==
    IF logFunc[m] = "nil"
    THEN UNCHANGED <<sink, sinkAtt>>
    ELSE /\ sink' = Append(sink, newEvent(typ, state, nm, id,
                                          getCallerChain(4, traceDepth[m]), Len(sink) + 1))
         /\ sinkAtt' = Append(sinkAtt, a)

\* slip: the option leaves lockOpts as it is
WithLockName_Ignored(n, lo) == lo

\* WithLockName(n) applied to lockOpts
WithLockName(n, lo) == n

\* lo := lockOpts{name: m.name}; for _, opt := range opts { opt(&lo) }
RECURSIVE applyOpts(_, _)
applyOpts(lo, opts) ==
    IF opts = <<>> THEN lo ELSE applyOpts(WithLockName(Head(opts), lo), Tail(opts))

\* the option lists a caller may pass: none, one or two WithLockName
OptLists == {<<>>} \cup {<<n>> : n \in OptNames} \cup {<<n1, n2>> : n1 \in OptNames, n2 \in OptNames}

\* slip: START is not emitted when the call begins
Begin_NoStart(a, m, typ, nm) ==
    /\ ~crashed
    /\ att[a].pc = "none"
    /\ \A b \in Attempts : b < a => att[b].pc # "none"
    /\ \E id \in Ids :
          att' = [att EXCEPT ![a] = [pc |-> "wait", typ |-> typ, mu |-> m,
                                     name |-> nm, id |-> id, inv |-> 0, mid |-> 0]]
    /\ UNCHANGED <<name, traceDepth, logFunc, holds, sink, sinkAtt, direct, crashed, analyzeVars, appVars, cliVars, wireVars>>

\* id := rand.IntN(9999999); m.emit(typ, "START", id, nm): the call now waits
\* at m.mu.Lock() or m.mu.RLock()
Begin(a, m, typ, nm) ==
    /\ ~crashed
    /\ att[a].pc = "none"
    /\ \A b \in Attempts : b < a => att[b].pc # "none"
    /\ \E id \in Ids :
          /\ att' = [att EXCEPT ![a] = [pc |-> "wait", typ |-> typ, mu |-> m,
                                        name |-> nm, id |-> id, inv |-> 0, mid |-> 0]]
          /\ emit(m, typ, "START", id, nm, a)
    /\ UNCHANGED <<name, traceDepth, logFunc, holds, direct, crashed, analyzeVars, appVars, cliVars, wireVars>>

\* Lock(), up to m.mu.Lock()
Lock(a, m) == Begin(a, m, "WLOCK", name[m])

\* slip: the per-call label is stored in the Mutex
LockFunc_RenamesMutex(a, m, opts) ==
    /\ ~crashed
    /\ att[a].pc = "none"
    /\ \A b \in Attempts : b < a => att[b].pc # "none"
    /\ name' = [name EXCEPT ![m] = applyOpts(name[m], opts)]
    /\ \E id \in Ids :
          /\ att' = [att EXCEPT ![a] = [pc |-> "wait", typ |-> "LOCK", mu |-> m,
                                        name |-> name'[m], id |-> id, inv |-> 0, mid |-> 0]]
          /\ emit(m, "LOCK", "START", id, name'[m], a)
    /\ UNCHANGED <<traceDepth, logFunc, holds, direct, crashed, analyzeVars, appVars, cliVars, wireVars>>

\* LockFunc(opts...), up to m.mu.Lock()
LockFunc(a, m, opts) == Begin(a, m, "LOCK", applyOpts(name[m], opts))

\* RLock(), up to m.mu.RLock()
RLock(a, m) == Begin(a, m, "RWLOCK", name[m])

\* RLockFunc(opts...), up to m.mu.RLock()
RLockFunc(a, m, opts) == Begin(a, m, "RLOCK", applyOpts(name[m], opts))

\* slip: the writer is let in whoever holds the lock
muLockEnter_NoExclusion(a) ==
    /\ ~crashed
    /\ att[a].pc = "wait"
    /\ att[a].typ \in ExclusiveKinds
    /\ holds' = holds \cup {a}
    /\ att' = [att EXCEPT ![a].pc = "granted"]
    /\ UNCHANGED <<name, traceDepth, logFunc, sink, sinkAtt, direct, crashed, analyzeVars, appVars, cliVars, wireVars>>

\* m.mu.Lock() is entered: the writer announces itself; it has the lock at once
\* when no reader holds it, and else waits for the readers to leave
muLockEnter(a) ==
    /\ ~crashed
    /\ att[a].pc = "wait"
    /\ att[a].typ \in ExclusiveKinds
    /\ ~WriterBusy(att[a].mu)
    /\ IF Readers(att[a].mu) = {}
       THEN holds' = holds \cup {a} /\ att' = [att EXCEPT ![a].pc = "granted"]
       ELSE UNCHANGED holds /\ att' = [att EXCEPT ![a].pc = "pending"]
    /\ UNCHANGED <<name, traceDepth, logFunc, sink, sinkAtt, direct, crashed, analyzeVars, appVars, cliVars, wireVars>>

\* m.mu.Lock() returns to a writer that waited: the last reader has left
muLockGrant(a) ==
    /\ ~crashed
    /\ att[a].pc = "pending"
    /\ Readers(att[a].mu) = {}
    /\ holds' = holds \cup {a}
    /\ att' = [att EXCEPT ![a].pc = "granted"]
    /\ UNCHANGED <<name, traceDepth, logFunc, sink, sinkAtt, direct, crashed, analyzeVars, appVars, cliVars, wireVars>>

\* slip: the reader is let in while a writer holds the lock
muRLock_IgnoresWriter(a) ==
    /\ ~crashed
    /\ att[a].pc = "wait"
    /\ att[a].typ \notin ExclusiveKinds
    /\ holds' = holds \cup {a}
    /\ att' = [att EXCEPT ![a].pc = "granted"]
    /\ UNCHANGED <<name, traceDepth, logFunc, sink, sinkAtt, direct, crashed, analyzeVars, appVars, cliVars, wireVars>>

\* slip: the reader is let in only when nobody holds the lock, reader or writer
muRLock_ExcludesReaders(a) ==
    /\ ~crashed
    /\ att[a].pc = "wait"
    /\ att[a].typ \notin ExclusiveKinds
    /\ ~WriterBusy(att[a].mu)
    /\ Readers(att[a].mu) = {}
    /\ holds' = holds \cup {a}
    /\ att' = [att EXCEPT ![a].pc = "granted"]
    /\ UNCHANGED <<name, traceDepth, logFunc, sink, sinkAtt, direct, crashed, analyzeVars, appVars, cliVars, wireVars>>

\* m.mu.RLock() returns: no writer holds or waits for the lock
muRLock(a) ==
    /\ ~crashed
    /\ att[a].pc = "wait"
    /\ att[a].typ \notin ExclusiveKinds
    /\ ~WriterBusy(att[a].mu)
    /\ holds' = holds \cup {a}
    /\ att' = [att EXCEPT ![a].pc = "granted"]
    /\ UNCHANGED <<name, traceDepth, logFunc, sink, sinkAtt, direct, crashed, analyzeVars, appVars, cliVars, wireVars>>

\* slip: ACQUIRED is emitted before m.mu.Lock() has been called
Acquired_BeforeLock(a) ==
    /\ ~crashed
    /\ att[a].pc = "wait"
    /\ emit(att[a].mu, att[a].typ, "ACQUIRED", att[a].id, att[a].name, a)
    /\ att' = [att EXCEPT ![a].pc = "returned"]
    /\ UNCHANGED <<name, traceDepth, logFunc, holds, direct, crashed, analyzeVars, appVars, cliVars, wireVars>>

\* m.emit(typ, "ACQUIRED", id, nm) and return (of the release function, for
\* LockFunc and RLockFunc)
Acquired(a) ==
    /\ ~crashed
    /\ att[a].pc = "granted"
    /\ emit(att[a].mu, att[a].typ, "ACQUIRED", att[a].id, att[a].name, a)
    /\ att' = [att EXCEPT ![a].pc = "returned"]
    /\ UNCHANGED <<name, traceDepth, logFunc, holds, direct, crashed, analyzeVars, appVars, cliVars, wireVars>>

\* sync.RWMutex.Unlock: a run-time error when the lock is not held for writing
muUnlock(m) ==
    IF Writer(m) = {}
    THEN crashed' = TRUE /\ UNCHANGED holds
    ELSE holds' = holds \ Writer(m) /\ UNCHANGED crashed

\* sync.RWMutex.RUnlock, called to end hold a (0: no hold in particular): one
\* reader less; a run-time error when the lock is not held for reading
muRUnlock(m, a) ==
    IF Readers(m) = {}
    THEN crashed' = TRUE /\ UNCHANGED holds
    ELSE /\ \E b \in (IF a \in Readers(m) THEN {a} ELSE Readers(m)) : holds' = holds \ {b}
         /\ UNCHANGED crashed

\* slip: the release function unlocks first and emits RELEASED afterwards
releaseStmt_UnlockFirst(a, k) ==
    IF k = 2
    THEN /\ emit(att[a].mu, att[a].typ, "RELEASED", att[a].id, att[a].name, a)
         /\ UNCHANGED <<holds, crashed>>
    ELSE /\ IF att[a].typ \in ExclusiveKinds
            THEN muUnlock(att[a].mu)
            ELSE muRUnlock(att[a].mu, a)
         /\ UNCHANGED <<sink, sinkAtt>>

\* slip: the release function draws a new id for RELEASED
releaseStmt_NewId(a, k) ==
    IF k = 1
    THEN /\ \E id \in Ids : emit(att[a].mu, att[a].typ, "RELEASED", id, att[a].name, a)
         /\ UNCHANGED <<holds, crashed>>
    ELSE /\ IF att[a].typ \in ExclusiveKinds
            THEN muUnlock(att[a].mu)
            ELSE muRUnlock(att[a].mu, a)
         /\ UNCHANGED <<sink, sinkAtt>>

\* slip: the release function only unlocks, as Unlock() does
releaseStmt_NoEvent(a, k) ==
    IF k = 1
    THEN UNCHANGED <<sink, sinkAtt, holds, crashed>>
    ELSE /\ IF att[a].typ \in ExclusiveKinds
            THEN muUnlock(att[a].mu)
            ELSE muRUnlock(att[a].mu, a)
         /\ UNCHANGED <<sink, sinkAtt>>

\* the release function's two statements:
\*   m.emit(typ, "RELEASED", id, lo.name); m.mu.Unlock() (m.mu.RUnlock() for RLockFunc)
releaseStmt(a, k) ==
    IF k = 1
    THEN /\ emit(att[a].mu, att[a].typ, "RELEASED", att[a].id, att[a].name, a)
         /\ UNCHANGED <<holds, crashed>>
    ELSE /\ IF att[a].typ \in ExclusiveKinds
            THEN muUnlock(att[a].mu)
            ELSE muRUnlock(att[a].mu, a)
         /\ UNCHANGED <<sink, sinkAtt>>

\* the release function is invoked and runs its first statement
ReleaseFirst(a) ==
    /\ ~crashed
    /\ att[a].pc = "returned"
    /\ att[a].typ \in TrackedKinds
    /\ att[a].inv < MaxInvoke
    /\ releaseStmt(a, 1)
    /\ att' = [att EXCEPT ![a].inv = @ + 1, ![a].mid = @ + 1]
    /\ UNCHANGED <<name, traceDepth, logFunc, direct, analyzeVars, appVars, cliVars, wireVars>>

\* an invocation of the release function runs its second statement and returns
ReleaseSecond(a) ==
    /\ ~crashed
    /\ att[a].mid > 0
    /\ releaseStmt(a, 2)
    /\ att' = [att EXCEPT ![a].mid = @ - 1]
    /\ UNCHANGED <<name, traceDepth, logFunc, direct, analyzeVars, appVars, cliVars, wireVars>>

\* slip: Unlock() emits a RELEASED event of its own
Unlock_Logged(m) ==
    /\ ~crashed
    /\ muUnlock(m)
    /\ \E id \in Ids : emit(m, "WLOCK", "RELEASED", id, name[m], 0)
    /\ direct' = [direct EXCEPT ![m] = @ \/ Writer(m) # {}]
    /\ UNCHANGED <<name, traceDepth, logFunc, att, analyzeVars, appVars, cliVars, wireVars>>

\* Unlock(): m.mu.Unlock() and nothing else
Unlock(m) ==
    /\ ~crashed
    /\ muUnlock(m)
    /\ direct' = [direct EXCEPT ![m] = @ \/ Writer(m) # {}]
    /\ UNCHANGED <<name, traceDepth, logFunc, att, sink, sinkAtt, analyzeVars, appVars, cliVars, wireVars>>

\* RUnlock(): m.mu.RUnlock() and nothing else
RUnlock(m) ==
    /\ ~crashed
    /\ muRUnlock(m, 0)
    /\ direct' = [direct EXCEPT ![m] = @ \/ Readers(m) # {}]
    /\ UNCHANGED <<name, traceDepth, logFunc, att, sink, sinkAtt, analyzeVars, appVars, cliVars, wireVars>>

\* counter := 0, no goroutine has touched it
AppIdle ==
    /\ counter = [m \in Mutexes |-> 0]
    /\ work = [a \in Attempts |-> [step |-> "idle", tmp |-> 0]]

\* deadlog analyze has printed nothing and is running
CliIdle ==
    /\ stdout = <<>>
    /\ stderr = <<>>
    /\ exit = [exited |-> FALSE, code |-> 0]

\* no Event has been handed to a WriterLogger
WireIdle ==
    /\ event = newEvent("", "", "", 0, "", 0)
    /\ wire = [kind |-> "empty", fields |-> EmptyMap]
    /\ decoded = newEvent("", "", "", 0, "", 0)
    /\ wpc = "event"

\* Analyze has not been called
AnalyzeIdle ==
    /\ lines = <<>>
    /\ starts = EmptyMap
    /\ acquires = EmptyMap
    /\ releases = {}
    /\ result = [nil |-> TRUE, Stuck |-> <<>>, Held |-> <<>>]
    /\ err = "none yet"
    /\ apc = "scan"

\* New(opts...): WithName and WithTrace as given, the sink the caller installs
New(names, depths, logger) ==
    /\ name = names
    /\ traceDepth = depths
    /\ logFunc = [m \in Mutexes |-> logger]
    /\ att = [a \in Attempts |-> NoAttempt]
    /\ holds = {}
    /\ sink = <<>>
    /\ sinkAtt = <<>>
    /\ direct = [m \in Mutexes |-> FALSE]
    /\ crashed = FALSE

\* the instance names and trace depths the two locks are constructed with
NameConfigs == {[m1 |-> "", m2 |-> "b"]}
DepthConfigs == {[m1 |-> 0, m2 |-> 1]}

Init ==
    /\ \E names \in NameConfigs, depths \in DepthConfigs : New(names, depths, "sink")
    /\ AnalyzeIdle
    /\ AppIdle
    /\ CliIdle
    /\ WireIdle

Next ==
    \/ \E a \in Attempts, m \in Mutexes : Lock(a, m)
    \/ \E a \in Attempts, m \in Mutexes, opts \in OptLists : LockFunc(a, m, opts)
    \/ \E a \in Attempts, m \in Mutexes : RLock(a, m)
    \/ \E a \in Attempts, m \in Mutexes, opts \in OptLists : RLockFunc(a, m, opts)
    \/ \E a \in Attempts : muLockEnter(a)
    \/ \E a \in Attempts : muLockGrant(a)
    \/ \E a \in Attempts : muRLock(a)
    \/ \E a \in Attempts : Acquired(a)
    \/ \E a \in Attempts : ReleaseFirst(a)
    \/ \E a \in Attempts : ReleaseSecond(a)
    \/ \E m \in Mutexes : Unlock(m)
    \/ \E m \in Mutexes : RUnlock(m)

Spec == Init /\ [][Next]_vars

-----------------------------------------------------------------------------
(* The same operations on locks constructed with or without a sink:          *)
(* New(WithLogger(WriterLogger(w))) and New(WithLogger(nil))                 *)

Loggers == {"sink", "nil"}

InitEither ==
    /\ \E names \in NameConfigs, depths \in DepthConfigs, logger \in Loggers :
          New(names, depths, logger)
    /\ AnalyzeIdle
    /\ AppIdle
    /\ CliIdle
    /\ WireIdle

SpecEither == InitEither /\ [][Next]_vars

\* what the statements around an emit do to the lock and to the call, events
\* aside: the call begins and reaches m.mu.Lock() or m.mu.RLock()
rwBegin(a, m, typ, nm) ==
    /\ att[a].pc = "none"
    /\ att'[a].pc = "wait" /\ att'[a].mu = m /\ att'[a].typ = typ /\ att'[a].name = nm
    /\ \A b \in Attempts \ {a} : att'[b] = att[b]
    /\ UNCHANGED <<holds, direct, crashed>>

\* events aside: the call has the lock and is ready to return; it returns
rwReady(a) == ~crashed /\ att[a].pc = "granted"
rwReturn(a) ==
    /\ rwReady(a)
    /\ att' = [att EXCEPT ![a].pc = "returned"]
    /\ UNCHANGED <<holds, direct, crashed>>

\* events aside: the release function may be invoked; its first statement
\* leaves the lock as it is
rwInvocable(a) ==
    ~crashed /\ att[a].pc = "returned" /\ att[a].typ \in TrackedKinds /\ att[a].inv < MaxInvoke
rwInvoke(a) ==
    /\ rwInvocable(a)
    /\ att' = [att EXCEPT ![a].inv = @ + 1, ![a].mid = @ + 1]
    /\ UNCHANGED <<holds, direct, crashed>>

-----------------------------------------------------------------------------
(* Goroutines that use the lock as the tests do: each acquires, works while  *)
(* it holds the lock, and releases its own hold once (mutex_test.go)         *)

\* counter++ under the exclusive lock, first half: the counter is read
Load(a) ==
    /\ ~crashed
    /\ att[a].pc = "returned"
    /\ att[a].typ \in ExclusiveKinds
    /\ att[a].inv = 0
    /\ work[a].step = "idle"
    /\ work' = [work EXCEPT ![a] = [step |-> "loaded", tmp |-> counter[att[a].mu]]]
    /\ UNCHANGED <<counter, mutexVars, analyzeVars, cliVars, wireVars>>

\* counter++ under the exclusive lock, second half: the sum is written back
Store(a) ==
    /\ ~crashed
    /\ work[a].step = "loaded"
    /\ counter' = [counter EXCEPT ![att[a].mu] = work[a].tmp + 1]
    /\ work' = [work EXCEPT ![a].step = "stored"]
    /\ UNCHANGED <<mutexVars, analyzeVars, cliVars, wireVars>>

\* the caller is through with what it does while it holds the lock
WorkDone(a) == att[a].typ \in ExclusiveKinds => work[a].step = "stored"

\* unlock := m.LockFunc(); ...; unlock(): the one invocation begins
ClientRelease(a) ==
    /\ att[a].inv = 0
    /\ WorkDone(a)
    /\ ReleaseFirst(a)

\* the one invocation of the release function unlocks and returns
ClientReleaseDone(a) == ReleaseSecond(a)

\* m.Lock(); ...; m.Unlock() by the goroutine that called Lock()
ClientUnlock(a) ==
    /\ att[a].typ = "WLOCK"
    /\ att[a].pc = "returned"
    /\ a \in holds
    /\ WorkDone(a)
    /\ Unlock(att[a].mu)

\* m.RLock(); ...; m.RUnlock() by the goroutine that called RLock()
ClientRUnlock(a) ==
    /\ att[a].typ = "RWLOCK"
    /\ att[a].pc = "returned"
    /\ a \in holds
    /\ RUnlock(att[a].mu)
    /\ holds' = holds \ {a}

NextClients ==
    \/ \E a \in Attempts, m \in Mutexes : Lock(a, m)
    \/ \E a \in Attempts, m \in Mutexes, opts \in OptLists : LockFunc(a, m, opts)
    \/ \E a \in Attempts, m \in Mutexes : RLock(a, m)
    \/ \E a \in Attempts, m \in Mutexes, opts \in OptLists : RLockFunc(a, m, opts)
    \/ \E a \in Attempts : muLockEnter(a)
    \/ \E a \in Attempts : muLockGrant(a)
    \/ \E a \in Attempts : muRLock(a)
    \/ \E a \in Attempts : Acquired(a)
    \/ \E a \in Attempts : Load(a)
    \/ \E a \in Attempts : Store(a)
    \/ \E a \in Attempts : ClientRelease(a)
    \/ \E a \in Attempts : ClientReleaseDone(a)
    \/ \E a \in Attempts : ClientUnlock(a)
    \/ \E a \in Attempts : ClientRUnlock(a)

\* a goroutine inside m.mu.Lock(), m.mu.RLock() or about to emit ACQUIRED goes
\* on as soon as the lock lets it: the runtime wakes the waiters of a
\* sync.RWMutex and runs every runnable goroutine. Whether and when a holder
\* releases is up to the application.
Scheduling ==
    \A a \in Attempts :
        /\ WF_vars(muLockEnter(a))
        /\ WF_vars(muLockGrant(a))
        /\ WF_vars(muRLock(a))
        /\ WF_vars(Acquired(a))

SpecClients == Init /\ [][NextClients]_vars /\ Scheduling

-----------------------------------------------------------------------------
(* Analyze reading a stream: analyze/analyze.go *)

\* (type, name) pairs of the events a stream may hold: the four kinds the lock
\* emits, and a type no lock emits whose key text coincides with another pair's
Subjects == {<<"LOCK", "a|b">>, <<"LOCK|a", "b">>, <<"WLOCK", "a|b">>,
             <<"RLOCK", "">>, <<"RWLOCK", "b">>}
InputIds == {1, 2}
InputTraces(s, state, id) ==
    IF s = <<"LOCK", "a|b">> /\ state # "RELEASED" /\ id = 1 THEN {"", "caller:1"} ELSE {""}

\* every subject with id 1, two of them with id 2 as well
InputIdsOf(s) == {i \in InputIds : i = 1 \/ s[1] \in {"LOCK", "WLOCK"}}

InputEvents ==
    UNION {UNION {{newEvent(s[1], state, s[2], id, tr, 1) : tr \in InputTraces(s, state, id)} :
                  id \in InputIdsOf(s)} :
           s \in Subjects, state \in States}

\* the lines a stream may hold: wire records, an empty line, a line that is no
\* JSON object, a JSON object without the event's keys, and a line longer than
\* the scanner's buffer
InputLines ==
    {Encode(e) : e \in InputEvents}
        \cup {[kind |-> "empty", fields |-> EmptyMap],
              [kind |-> "text", fields |-> EmptyMap],
              [kind |-> "object", fields |-> EmptyMap],
              [kind |-> "toolong", fields |-> EmptyMap]}

NoResult == [nil |-> TRUE, Stuck |-> <<>>, Held |-> <<>>]

\* scanner.Scan() returns a line; the loop body records it
Scan(line) ==
    /\ apc = "scan"
    /\ Len(lines) < MaxLines
    /\ line.kind # "toolong"
    /\ lines' = Append(lines, line)
    /\ LET st == ScanLine([starts |-> starts, acquires |-> acquires, releases |-> releases], line)
       IN  /\ starts' = st.starts
           /\ acquires' = st.acquires
           /\ releases' = st.releases
    /\ UNCHANGED <<result, err, apc, mutexVars, appVars, cliVars, wireVars>>

\* slip: the lists collected so far are returned together with the error
ScanFails_PartialResult(line) ==
    /\ apc = "scan"
    /\ Len(lines) < MaxLines
    /\ line.kind \in {"toolong", "ioerror"}
    /\ lines' = Append(lines, line)
    /\ LET st == [starts |-> starts, acquires |-> acquires, releases |-> releases]
       IN  \E s \in SortedByID(StuckMap(st)), h \in SortedByID(HeldMap(st)) :
              result' = [nil |-> FALSE, Stuck |-> s, Held |-> h]
    /\ err' = IF line.kind = "toolong" THEN "bufio.ErrTooLong" ELSE "read error"
    /\ apc' = "done"
    /\ UNCHANGED <<starts, acquires, releases, mutexVars, appVars, cliVars, wireVars>>

\* scanner.Scan() returns false with scanner.Err() set: the reader failed, or
\* the next line does not fit the scanner's buffer; Analyze returns nil, err
ScanFails(line) ==
    /\ apc = "scan"
    /\ Len(lines) < MaxLines
    /\ line.kind \in {"toolong", "ioerror"}
    /\ lines' = Append(lines, line)
    /\ result' = NoResult
    /\ err' = IF line.kind = "toolong" THEN "bufio.ErrTooLong" ELSE "read error"
    /\ apc' = "done"
    /\ UNCHANGED <<starts, acquires, releases, mutexVars, appVars, cliVars, wireVars>>

\* scanner.Scan() returns false at the end of the stream: Stuck and Held are
\* collected from the maps, sorted by ID and returned
Return ==
    /\ apc = "scan"
    /\ LET st == [starts |-> starts, acquires |-> acquires, releases |-> releases]
       IN  \E s \in SortedByID(StuckMap(st)), h \in SortedByID(HeldMap(st)) :
              result' = [nil |-> FALSE, Stuck |-> s, Held |-> h]
    /\ err' = "nil"
    /\ apc' = "done"
    /\ UNCHANGED <<lines, starts, acquires, releases, mutexVars, appVars, cliVars, wireVars>>

\* AnalyzeFile: os.Open fails, nothing is read; return nil, err
AnalyzeFileOpenFails ==
    /\ apc = "scan"
    /\ lines = <<>>
    /\ result' = NoResult
    /\ err' = "open error"
    /\ apc' = "done"
    /\ UNCHANGED <<lines, starts, acquires, releases, mutexVars, appVars, cliVars, wireVars>>

\* the verb %-Ns: s followed by blanks up to the width n, s itself when longer
RECURSIVE PadRight(_, _)
PadRight(s, n) == IF Len(s) >= n THEN s ELSE PadRight(s \o " ", n)

\* slip: an empty label is printed as it is
ReportEntry_NoPlaceholder(info) ==
    LET row == "  " \o PadRight(info.Type, 5) \o " | " \o PadRight(info.Name, 20)
                    \o " | ID: " \o ToString(info.ID)
    IN  IF info.Trace # ""
        THEN <<row, "         Trace: " \o info.Trace>>
        ELSE <<row>>

\* the lines PrintReport writes for one entry: "  %-5s | %-20s | ID: %d" with
\* "(unnamed)" for an empty label, and the trace line when there is a trace
ReportEntry(info) ==
    LET label == IF info.Name = "" THEN "(unnamed)" ELSE info.Name
        row == "  " \o PadRight(info.Type, 5) \o " | " \o PadRight(label, 20)
                    \o " | ID: " \o ToString(info.ID)
    IN  IF info.Trace # ""
        THEN <<row, "         Trace: " \o info.Trace>>
        ELSE <<row>>

\* the lines PrintReport writes for the entries of one list, in list order
RECURSIVE ReportRows(_)
ReportRows(list) ==
    IF list = <<>>
    THEN <<>>
    ELSE ReportEntry(Head(list)) \o ReportRows(Tail(list))

\* one section of the report: "(none)" for an empty list
ReportSection(list) ==
    IF Len(list) = 0 THEN <<"  (none)">> ELSE ReportRows(list)

ReportRule == "==============================================="

\* PrintReport(w, r): the lines written to w
PrintReport(r) ==
    <<ReportRule, "  LOCK CONTENTION ANALYSIS", ReportRule, "",
      "=== STUCK: Started but never acquired (waiting for lock) ===">>
    \o ReportSection(r.Stuck)
    \o <<"", "=== HELD: Acquired but never released (holding lock) ===">>
    \o ReportSection(r.Held)
    \o <<"", "=== SUMMARY ===",
         "  Stuck waiting: " \o ToString(Len(r.Stuck)),
         "  Held:          " \o ToString(Len(r.Held)),
         "">>

\* slip: the exit status looks at the Stuck list only
runAnalyze_StuckOnly ==
    /\ apc = "done"
    /\ ~exit.exited
    /\ IF err # "nil"
       THEN /\ stderr' = Append(stderr, "Error: " \o err)
            /\ exit' = [exited |-> TRUE, code |-> 1]
            /\ UNCHANGED stdout
       ELSE /\ stdout' = stdout \o PrintReport(result)
            /\ exit' = [exited |-> TRUE,
                        code |-> IF Len(result.Stuck) > 0 THEN 1 ELSE 0]
            /\ UNCHANGED stderr
    /\ UNCHANGED <<analyzeVars, mutexVars, appVars, wireVars>>

\* slip: the error is reported but the report is printed all the same
runAnalyze_ReportsAnyway ==
    /\ apc = "done"
    /\ ~exit.exited
    /\ IF err # "nil"
       THEN /\ stderr' = Append(stderr, "Error: " \o err)
            /\ stdout' = stdout \o PrintReport(result)
            /\ exit' = [exited |-> TRUE, code |-> 1]
       ELSE /\ stdout' = stdout \o PrintReport(result)
            /\ exit' = [exited |-> TRUE,
                        code |-> IF Len(result.Stuck) > 0 \/ Len(result.Held) > 0
                                 THEN 1 ELSE 0]
            /\ UNCHANGED stderr
    /\ UNCHANGED <<analyzeVars, mutexVars, appVars, wireVars>>

\* runAnalyze(path), the statements after Analyze or AnalyzeFile has returned:
\* an error is printed on stderr and the process exits with 1; otherwise the
\* report is printed and the process exits with 1 when a list is non-empty
runAnalyze ==
    /\ apc = "done"
    /\ ~exit.exited
    /\ IF err # "nil"
       THEN /\ stderr' = Append(stderr, "Error: " \o err)
            /\ exit' = [exited |-> TRUE, code |-> 1]
            /\ UNCHANGED stdout
       ELSE /\ stdout' = stdout \o PrintReport(result)
            /\ exit' = [exited |-> TRUE,
                        code |-> IF Len(result.Stuck) > 0 \/ Len(result.Held) > 0
                                 THEN 1 ELSE 0]
            /\ UNCHANGED stderr
    /\ UNCHANGED <<analyzeVars, mutexVars, appVars, wireVars>>

InitAnalyze ==
    /\ New([m \in Mutexes |-> ""], [m \in Mutexes |-> 0], "sink")
    /\ AnalyzeIdle
    /\ AppIdle
    /\ CliIdle
    /\ WireIdle

NextAnalyze ==
    \/ \E line \in InputLines : Scan(line)
    \/ \E line \in InputLines \cup {[kind |-> "ioerror", fields |-> EmptyMap]} : ScanFails(line)
    \/ Return
    \/ AnalyzeFileOpenFails
    \/ runAnalyze

SpecAnalyze == InitAnalyze /\ [][NextAnalyze]_vars

-----------------------------------------------------------------------------
(* An Event written by a WriterLogger and decoded again, as Analyze decodes  *)
(* each line                                                                 *)

\* the events handed to the logger: every kind and phase, empty and non-empty
\* labels and traces, ids from 0 (rand.IntN may return 0), two clock readings
WireEvents ==
    {newEvent(t, state, nm, id, tr, now) :
        t \in Kinds, state \in States, nm \in Names \cup {InvalidUTF8},
        id \in Ids \cup {0}, tr \in {"", "caller:1"}, now \in {1, 2}}

\* WriterLogger(w)(e): json.NewEncoder(w).Encode(e) writes one line
WriterLogger ==
    /\ wpc = "event"
    /\ wire' = Encode(event)
    /\ wpc' = "written"
    /\ UNCHANGED <<event, decoded, mutexVars, analyzeVars, appVars, cliVars>>

\* var e deadlog.Event; json.Unmarshal(line, &e)
UnmarshalLine ==
    /\ wpc = "written"
    /\ ~Unmarshal(wire).err
    /\ decoded' = Unmarshal(wire).e
    /\ wpc' = "read"
    /\ UNCHANGED <<event, wire, mutexVars, analyzeVars, appVars, cliVars>>

InitWire ==
    /\ New([m \in Mutexes |-> ""], [m \in Mutexes |-> 0], "sink")
    /\ AnalyzeIdle
    /\ AppIdle
    /\ CliIdle
    /\ event \in WireEvents
    /\ wire = [kind |-> "empty", fields |-> EmptyMap]
    /\ decoded = newEvent("", "", "", 0, "", 0)
    /\ wpc = "event"

NextWire ==
    \/ WriterLogger
    \/ UnmarshalLine

SpecWire == InitWire /\ [][NextWire]_vars

-----------------------------------------------------------------------------
(* Vocabulary of the properties *)

Triple(x) == <<x.Type, x.Name, x.ID>>

\* the run of Analyze over the stream the sink has written so far
SinkMaps == Analyzed(Written(sink))
SinkStuck == StuckMap(SinkMaps)
SinkHeld == HeldMap(SinkMaps)

\* the positions in the sink of the events of acquire call a
EventsOf(a) == {i \in 1..Len(sink) : sinkAtt[i] = a}
PhaseOf(a, state) == {i \in EventsOf(a) : sink[i].State = state}

\* this step delivers an event of phase `state` for acquire call a
Delivers(a, state) ==
    /\ Len(sink') = Len(sink) + 1
    /\ sinkAtt'[Len(sink')] = a
    /\ sink'[Len(sink')].State = state

\* line l is a record of phase `state` for the key t = (kind, label, id)
Carries(l, t, state) ==
    /\ l.kind = "object"
    /\ {"type", "state", "name", "id"} \subseteq DOMAIN l.fields
    /\ <<l.fields["type"], l.fields["name"], l.fields["id"]>> = t
    /\ l.fields["state"] = state

\* the keys with a record of phase `state` in the stream read
KeysWith(state) ==
    {t \in {Triple(e) : e \in InputEvents} : \E i \in 1..Len(lines) : Carries(lines[i], t, state)}

\* every record of the stream read has one of the four kinds
FourKindStream ==
    \A i \in 1..Len(lines) :
        (lines[i].kind = "object" /\ "type" \in DOMAIN lines[i].fields)
            => lines[i].fields["type"] \in Kinds

\* Analyze has returned a result
Returned == apc = "done" /\ ~result.nil

ListedKeys(list) == {Triple(list[i]) : i \in 1..Len(list)}

-----------------------------------------------------------------------------
(* Properties *)

\* C1: whatever untracked acquisitions (Lock: WLOCK, RLock: RWLOCK) are made and
\* whether or not they are unlocked, the analysis of the emitted stream has no
\* WLOCK or RWLOCK entry in Held.
C1_UntrackedNeverHeld ==
    \A k \in DOMAIN SinkHeld : SinkHeld[k].Type \notin {"WLOCK", "RWLOCK"}

\* C2: for every stream (of records of the four kinds), Held lists exactly the
\* keys that have an ACQUIRED record, are of a tracked kind (LOCK, RLOCK) and
\* have no RELEASED record, each once.
C2_HeldExactlyTrackedUnreleased ==
    (Returned /\ FourKindStream) =>
        /\ ListedKeys(result.Held) =
              {t \in KeysWith("ACQUIRED") : t[1] \in TrackedKinds /\ t \notin KeysWith("RELEASED")}
        /\ Len(result.Held) = Cardinality(ListedKeys(result.Held))

C4_PhaseOrder ==
    /\ [](\A a \in Attempts :
            /\ \A i \in PhaseOf(a, "ACQUIRED") : \E j \in PhaseOf(a, "START") : j < i
            /\ \A i \in PhaseOf(a, "RELEASED") : \E j \in PhaseOf(a, "ACQUIRED") : j < i)
    /\ [][\A a \in Attempts : Delivers(a, "ACQUIRED") => att[a].pc = "granted"]_vars

\* C4 witness: a tracked call whose three events are all delivered, while a
\* second call has started in between
C4_Witness ==
    \E a, b \in Attempts :
        /\ a # b
        /\ \E i \in PhaseOf(a, "START"), j \in PhaseOf(b, "START"), k \in PhaseOf(a, "RELEASED") :
              i < j /\ j < k

\* the lock of call a has been unlocked by the release functions alone, each
\* invoked at most once: no direct Unlock()/RUnlock(), no second invocation
Orderly(m) ==
    /\ ~direct[m]
    /\ \A b \in Attempts : att[b].mu = m => att[b].inv <= 1

\* this step is the second statement of a release function of call a
Unlocks(a) == att'[a].mid = att[a].mid - 1

\* C5 as stated: a release function delivers RELEASED first and unlocks only
\* afterwards, and the call still holds the lock when RELEASED is delivered.
C5_HeldWhenReleased ==
    [][\A a \in Attempts :
          /\ Unlocks(a) =>
                Cardinality(PhaseOf(a, "RELEASED")) >= att[a].inv - att[a].mid + 1
          /\ Delivers(a, "RELEASED") => a \in holds]_vars

\* C5 as amended: a release function delivers RELEASED first and unlocks only
\* afterwards; on its first invocation, when Unlock()/RUnlock() has released no
\* hold of that lock and no release function of that lock has been invoked
\* twice, the call still holds the lock when RELEASED is delivered.
C5_HeldWhenReleasedOrderly ==
    [][\A a \in Attempts :
          /\ Unlocks(a) =>
                Cardinality(PhaseOf(a, "RELEASED")) >= att[a].inv - att[a].mid + 1
          /\ (Delivers(a, "RELEASED") /\ Orderly(att[a].mu)') => a \in holds]_vars

\* C5 witness: RELEASED has been delivered for a call that still holds its lock,
\* while a second call waits for the same lock
C5_Witness ==
    \E a, b \in Attempts :
        /\ att[a].inv = 1 /\ att[a].mid = 1 /\ a \in holds
        /\ Orderly(att[a].mu)
        /\ att[b].mu = att[a].mu /\ att[b].pc = "wait"

\* C6: all events of one acquire call carry the same id, kind and label, the id
\* is the one drawn when the call began, and it never changes afterwards.
C6_SameCorrelation ==
    /\ [](\A i \in 1..Len(sink) :
            /\ sink[i].ID = att[sinkAtt[i]].id
            /\ \A j \in EventsOf(sinkAtt[i]) : Triple(sink[j]) = Triple(sink[i]))
    /\ [][\A a \in Attempts : att[a].pc # "none" => att'[a].id = att[a].id]_vars

\* C6 witness: the three events of a tracked call with a per-call label are
\* delivered, and a call with another id has delivered events too
C6_Witness ==
    \E a, b \in Attempts :
        /\ att[a].pc # "none" /\ att[b].pc # "none"
        /\ att[a].name # name[att[a].mu]
        /\ PhaseOf(a, "START") # {} /\ PhaseOf(a, "ACQUIRED") # {} /\ PhaseOf(a, "RELEASED") # {}
        /\ EventsOf(b) # {} /\ att[b].id # att[a].id

\* this step is a call of Unlock() or RUnlock()
DirectUnlock == att' = att /\ (holds' # holds \/ crashed' # crashed)

OnlyTrackedAllReleased ==
    /\ \E a \in Attempts : att[a].pc # "none"
    /\ \A a \in Attempts :
          \/ att[a].pc = "none"
          \/ /\ att[a].typ \in TrackedKinds /\ att[a].pc = "returned"
             /\ att[a].inv = 1 /\ att[a].mid = 0
    /\ \A m \in Mutexes : ~direct[m]

\* C8: after any number of tracked acquisitions, sequential or concurrent, each
\* followed by one invocation of its release function, the analysis of the
\* emitted stream has empty Stuck and empty Held.
C8_AllReleasedNothingReported ==
    OnlyTrackedAllReleased => (DOMAIN SinkStuck = {} /\ DOMAIN SinkHeld = {})

\* C8 witness: two tracked calls on one lock that both started before either
\* acquired, both released
C8_Witness ==
    /\ OnlyTrackedAllReleased
    /\ att[1].mu = att[2].mu /\ att[2].pc # "none"
    /\ sink[1].State = "START" /\ sink[2].State = "START"

AttTriple(a) == <<att[a].typ, att[a].name, att[a].id>>
KeysOf(m, t) == {k \in DOMAIN m : Triple(m[k]) = t}

\* a LockFunc/RLockFunc that has returned and whose release function has not
\* been invoked
Unreleased(a) == att[a].typ \in TrackedKinds /\ att[a].pc = "returned" /\ att[a].inv = 0

\* C9 as stated: the key of every tracked acquisition that was granted and
\* whose release function is never invoked is once in Held and not in Stuck.
C9_UnreleasedHeldOnce ==
    \A a \in Attempts : Unreleased(a) =>
        /\ Cardinality(KeysOf(SinkHeld, AttTriple(a))) = 1
        /\ KeysOf(SinkStuck, AttTriple(a)) = {}

\* C9 as amended: ... provided no other acquisition with the same kind, label
\* and id has had its release function invoked.
C9_UnreleasedHeldOnceUnlessShared ==
    \A a \in Attempts :
        (/\ Unreleased(a)
         /\ \A b \in Attempts \ {a} : AttTriple(b) = AttTriple(a) => att[b].inv = 0) =>
            /\ Cardinality(KeysOf(SinkHeld, AttTriple(a))) = 1
            /\ KeysOf(SinkStuck, AttTriple(a)) = {}

\* C9 witness: an unreleased tracked acquisition, and a released one of the
\* same kind and label with another id
C9_Witness ==
    \E a, b \in Attempts :
        /\ Unreleased(a)
        /\ att[b].typ = att[a].typ /\ att[b].name = att[a].name /\ att[b].id # att[a].id
        /\ att[b].inv = 1 /\ att[b].mid = 0

\* an acquire call that has emitted START and waits for the underlying lock
Blocked(a) == att[a].pc \in {"wait", "pending"}

\* C10 as stated: the key of every acquire call that has emitted START and is
\* blocked on the underlying lock is once in Stuck and not in Held.
C10_BlockedStuckOnce ==
    \A a \in Attempts : Blocked(a) =>
        /\ Cardinality(KeysOf(SinkStuck, AttTriple(a))) = 1
        /\ KeysOf(SinkHeld, AttTriple(a)) = {}

\* C10 as amended: ... provided no other acquire call with the same kind, label
\* and id has emitted ACQUIRED.
C10_BlockedStuckOnceUnlessShared ==
    \A a \in Attempts :
        (/\ Blocked(a)
         /\ \A b \in Attempts \ {a} : AttTriple(b) = AttTriple(a) => att[b].pc # "returned") =>
            /\ Cardinality(KeysOf(SinkStuck, AttTriple(a))) = 1
            /\ KeysOf(SinkHeld, AttTriple(a)) = {}

\* C10 witness: a call blocked behind an exclusive holder of the same lock that
\* has the same kind and label and another id
C10_Witness ==
    \E a, b \in Attempts :
        /\ Blocked(a)
        /\ att[b].mu = att[a].mu /\ b \in holds /\ att[b].pc = "returned"
        /\ att[b].typ = att[a].typ /\ att[b].name = att[a].name /\ att[b].id # att[a].id

\* acquire call a has been made
Started(a) == att[a].pc # "none"

\* the analyzer's key of the events of acquire call a
KeyOfAtt(a) == Key([Type |-> att[a].typ, Name |-> att[a].name, ID |-> att[a].id])

\* C11 as stated: any two distinct acquire calls on the same lock have two
\* distinct correlation ids, hence two distinct analyzer keys.
C11_DistinctIds ==
    \A a, b \in Attempts :
        (a # b /\ Started(a) /\ Started(b) /\ att[a].mu = att[b].mu) =>
            (att[a].id # att[b].id /\ KeyOfAtt(a) # KeyOfAtt(b))

\* C11 as amended: the ids of two acquire calls on the same lock are drawn
\* independently and may coincide; whenever they differ, the analyzer keeps the
\* calls' events under two distinct keys, each with the call's own kind, label
\* and id.
C11_DistinctIdsDistinctKeys ==
    LET recorded == SinkMaps.starts
    IN  \A a, b \in Attempts :
            (a # b /\ Started(a) /\ Started(b) /\ att[a].mu = att[b].mu
                  /\ att[a].id # att[b].id) =>
                /\ KeyOfAtt(a) # KeyOfAtt(b)
                /\ KeyOfAtt(a) \in DOMAIN recorded
                /\ Triple(recorded[KeyOfAtt(a)]) = AttTriple(a)

\* C11 witness: two calls of the same kind and label on one lock with
\* different ids, the second made after the first was released
C11_Witness ==
    \E a, b \in Attempts :
        /\ Started(a) /\ Started(b) /\ att[a].mu = att[b].mu
        /\ att[a].typ = att[b].typ /\ att[a].name = att[b].name
        /\ att[a].id # att[b].id
        /\ \E i \in PhaseOf(a, "RELEASED"), j \in PhaseOf(b, "START") : i < j

\* the number of events of phase `state` in the sink that carry the triple t
CountEv(t, state) ==
    Cardinality({i \in 1..Len(sink) : Triple(sink[i]) = t /\ sink[i].State = state})

\* C12 as stated: in the emitted stream every (kind, label, id) triple has at
\* most one START, at most one ACQUIRED and at most one RELEASED event.
C12_OnePerPhase ==
    \A i \in 1..Len(sink) : CountEv(Triple(sink[i]), sink[i].State) = 1

\* C12 as amended: every acquire call emits exactly one START, at most one
\* ACQUIRED and one RELEASED per invocation of its release function; a triple
\* has at most one event of each phase when no two calls share the triple and
\* the release function is invoked at most once.
C12_OnePerPhasePerCall ==
    \A a \in Attempts : Started(a) =>
        /\ Cardinality(PhaseOf(a, "START")) = 1
        /\ Cardinality(PhaseOf(a, "ACQUIRED")) = (IF att[a].pc = "returned" THEN 1 ELSE 0)
        /\ Cardinality(PhaseOf(a, "RELEASED")) = att[a].inv
        /\ (/\ att[a].inv <= 1
            /\ \A b \in Attempts \ {a} : AttTriple(b) # AttTriple(a)) =>
                \A state \in States : CountEv(AttTriple(a), state) <= 1

\* C12 witness: two calls with different triples, each with its three events
C12_Witness ==
    \E a, b \in Attempts :
        /\ AttTriple(a) # AttTriple(b)
        /\ att[a].inv = 1 /\ att[b].inv = 1
        /\ \A state \in States :
              CountEv(AttTriple(a), state) = 1 /\ CountEv(AttTriple(b), state) = 1

\* the caller of acquire call a has the lock and has not released it
CallerHolds(a) ==
    /\ att[a].pc \in {"granted", "returned"}
    /\ IF att[a].typ \in TrackedKinds THEN att[a].inv = att[a].mid ELSE a \in holds

\* C13: while a caller holds the lock exclusively no other caller holds it,
\* exclusively or shared, and the counter that is incremented under the
\* exclusive lock always equals the number of increments made.
C13_MutualExclusion ==
    /\ \A a \in Attempts : CallerHolds(a) => a \in holds
    /\ \A a, b \in Attempts :
          (a # b /\ att[a].mu = att[b].mu /\ CallerHolds(a) /\ att[a].typ \in ExclusiveKinds)
              => ~CallerHolds(b)
    /\ \A m \in Mutexes :
          counter[m] = Cardinality({a \in Attempts : att[a].mu = m /\ work[a].step = "stored"})
    /\ ~crashed

\* C13 witness: two callers have incremented the counter of one lock, the
\* second having waited while the first held the lock
C13_Witness ==
    \E m \in Mutexes :
        /\ counter[m] = 2
        /\ sink[1].State = "START" /\ sink[2].State = "START"
        /\ sinkAtt[1] # sinkAtt[2]

\* the holds of the lock of acquire call b that are not b's
OthersHold(b) == {c \in holds \ {b} : att[c].mu = att[b].mu}

\* C14: an acquisition is granted, and its ACQUIRED delivered, only while no
\* other caller holds the lock exclusively; and a blocked acquisition
\* eventually returns provided the holders of the lock release it again and
\* again.
C14_BlockedUntilReleased ==
    /\ [][\A b \in Attempts :
            (\/ att[b].pc \in {"wait", "pending"} /\ att'[b].pc \notin {"wait", "pending"}
             \/ Delivers(b, "ACQUIRED"))
                => Writer(att[b].mu) \ {b} = {}]_vars
    /\ \A b \in Attempts :
          []<>(OthersHold(b) = {}) => (Blocked(b) ~> att[b].pc = "returned")

\* C14 witness: a contender that began while a writer held the lock has
\* returned after the writer's release
C14_Witness ==
    \E a, b \in Attempts :
        /\ a # b /\ att[a].mu = att[b].mu /\ att[a].typ = "LOCK"
        /\ att[b].pc = "returned"
        /\ \E i \in PhaseOf(a, "ACQUIRED"), j \in PhaseOf(b, "START"),
                k \in PhaseOf(a, "RELEASED"), l \in PhaseOf(b, "ACQUIRED") :
              i < j /\ j < k /\ k < l

\* an earlier invocation of the release function of call a has unlocked already
UnlockedBefore(a) == att[a].inv - att[a].mid >= 1

\* C15: an invocation of a release function after the first does not unlock
\* the underlying lock again: it releases no hold of another acquisition.
C15_SecondInvocationHarmless ==
    [][\A a \in Attempts :
          (Unlocks(a) /\ UnlockedBefore(a)) => (holds \ {a}) \subseteq holds']_vars

\* the lock of acquire call a was constructed with WithLogger(nil)
NoSink(a) == Started(a) /\ logFunc[att[a].mu] = "nil"

\* C16: a lock without a sink delivers no event, and with or without a sink
\* the statements that emit neither block nor fail nor touch the lock: a call
\* begins, returns and is released exactly when, and with the effect on the
\* lock that, the underlying sync.RWMutex calls alone would have.
C16_NoSinkSameLocking ==
    /\ [](\A i \in 1..Len(sink) : ~NoSink(sinkAtt[i]))
    /\ [](\A a \in Attempts :
            /\ rwReady(a) => ENABLED Acquired(a)
            /\ rwInvocable(a) => ENABLED ReleaseFirst(a)
            /\ (~crashed /\ att[a].pc = "none" /\ \A b \in Attempts : b < a => Started(b))
                  => \A m \in Mutexes : ENABLED Lock(a, m) /\ ENABLED RLock(a, m)
                         /\ \A opts \in OptLists :
                               ENABLED LockFunc(a, m, opts) /\ ENABLED RLockFunc(a, m, opts))
    /\ [][\A a \in Attempts :
            /\ Acquired(a) => rwReturn(a)
            /\ ReleaseFirst(a) => rwInvoke(a)
            /\ \A m \in Mutexes :
                  /\ Lock(a, m) => rwBegin(a, m, "WLOCK", name[m])
                  /\ RLock(a, m) => rwBegin(a, m, "RWLOCK", name[m])
                  /\ \A opts \in OptLists :
                        /\ LockFunc(a, m, opts) => rwBegin(a, m, "LOCK", applyOpts(name[m], opts))
                        /\ RLockFunc(a, m, opts) => rwBegin(a, m, "RLOCK", applyOpts(name[m], opts))]_vars

\* C16 witness: on a lock without a sink one call has acquired, been released
\* by its release function, and a second call on that lock is blocked behind
\* a third hold; nothing was delivered
C16_Witness ==
    \E a, b \in Attempts :
        /\ NoSink(a) /\ att[a].mu = att[b].mu
        /\ att[a].pc = "returned" /\ a \in holds
        /\ Blocked(b)
        /\ sink = <<>>

\* the label a call on lock m with the options opts is to carry: the label of
\* the last WithLockName, the instance name when there is none
LabelFor(m, opts) == IF opts = <<>> THEN name[m] ELSE opts[Len(opts)]

\* this step delivers START for call a with the label nm, and nm is the call's label
StartsAs(a, nm) ==
    /\ Delivers(a, "START")
    /\ sink'[Len(sink')].Name = nm
    /\ att'[a].name = nm

\* C17: a tracked call carries the per-call label when WithLockName is given
\* and the instance name otherwise, on all its events; an untracked call
\* carries the instance name.
C17_LabelResolution ==
    /\ [][\A a \in Attempts, m \in Mutexes :
            /\ Lock(a, m) => StartsAs(a, name[m])
            /\ RLock(a, m) => StartsAs(a, name[m])
            /\ \A opts \in OptLists :
                  /\ LockFunc(a, m, opts) => StartsAs(a, LabelFor(m, opts))
                  /\ RLockFunc(a, m, opts) => StartsAs(a, LabelFor(m, opts))]_vars
    /\ [](\A a \in Attempts : \A i \in EventsOf(a) : sink[i].Name = att[a].name)
    /\ [][\A a \in Attempts : Started(a) => att'[a].name = att[a].name]_vars

\* C17 witness: a tracked call with a per-call label on a named lock has
\* delivered its three events, and an untracked call on the same lock has
\* delivered ACQUIRED with the instance name
C17_Witness ==
    \E a, b \in Attempts :
        /\ Started(a) /\ Started(b) /\ att[a].mu = att[b].mu
        /\ name[att[a].mu] = "b"
        /\ att[a].typ \in TrackedKinds /\ att[a].name = "a|b"
        /\ \A state \in States : \E i \in PhaseOf(a, state) : sink[i].Name = "a|b"
        /\ att[b].typ \notin TrackedKinds
        /\ \E i \in PhaseOf(b, "ACQUIRED") : sink[i].Name = "b"

\* C18: no call changes the name of a lock instance: a call without a
\* per-call label emits the name the instance was constructed with whatever
\* labels other calls on the lock were given, and every event of a call
\* carries that call's label and no other call's.
C18_OverrideLeavesInstanceName ==
    /\ [][name' = name]_vars
    /\ [][\A a \in Attempts, m \in Mutexes :
            (Lock(a, m) \/ RLock(a, m) \/ LockFunc(a, m, <<>>) \/ RLockFunc(a, m, <<>>))
                => \E names \in NameConfigs : sink'[Len(sink')].Name = names[m]]_vars
    /\ [](\A i \in 1..Len(sink) : \A b \in Attempts :
            (sinkAtt[i] # b /\ att[b].name # att[sinkAtt[i]].name)
                => sink[i].Name # att[b].name)

\* C18 witness: on one lock a call with a per-call label started first and
\* still holds the lock, and a later call without one has emitted the
\* instance name
C18_Witness ==
    \E a, b \in Attempts :
        /\ att[a].mu = "m1" /\ att[b].mu = "m1"
        /\ att[a].name = "a|b" /\ att[b].name = name["m1"]
        /\ a \in holds
        /\ \E i \in PhaseOf(a, "START"), j \in PhaseOf(b, "START") :
              i < j /\ sink[i].Name = "a|b" /\ sink[j].Name = ""

\* the ids along a returned list do not decrease
Ascending(list) == \A i \in 1..(Len(list) - 1) : list[i].ID <= list[i + 1].ID

\* C19: both lists returned by Analyze are in ascending order of id.
C19_ListsAscending ==
    Returned => (Ascending(result.Stuck) /\ Ascending(result.Held))

\* C19 witness: Analyze has returned two held entries with different ids and
\* one stuck entry
C19_Witness ==
    /\ Returned
    /\ Len(result.Held) = 2 /\ result.Held[1].ID < result.Held[2].ID
    /\ Len(result.Stuck) = 1

\* C20: what Analyze returns is determined by the stream read: the lists it
\* has returned are the only lists it can return for these lines (records of
\* the four kinds).
C20_Deterministic ==
    (Returned /\ FourKindStream) =>
        /\ SortedByID(StuckMap(Analyzed(lines))) = {result.Stuck}
        /\ SortedByID(HeldMap(Analyzed(lines))) = {result.Held}

\* a line that is no record: an empty line, or text that is no JSON, of
\* ordinary length or longer than the scanner's buffer
NonRecord(l) == l.kind \in {"empty", "text", "toolong"}

IsRecord(l) == ~NonRecord(l)

Range(list) == {list[i] : i \in 1..Len(list)}

\* what Analyze returns for the whole stream ls: an error when the scanner
\* fails at some line, or else the entries of Stuck and of Held
AnalyzeOutcome(ls) ==
    IF \E i \in 1..Len(ls) : ls[i].kind \in {"toolong", "ioerror"}
    THEN [failed |-> TRUE, Stuck |-> {}, Held |-> {}]
    ELSE LET st == Analyzed(ls)
             stuck == StuckMap(st)
             held == HeldMap(st)
         IN  [failed |-> FALSE,
              Stuck |-> {stuck[k] : k \in DOMAIN stuck},
              Held |-> {held[k] : k \in DOMAIN held}]

\* Analyze has returned (AnalyzeFile did open the file)
AnalyzeReturned == apc = "done" /\ err # "open error"

\* C21: what Analyze returns for a stream is what it returns for the same
\* stream with its non-record lines (empty lines, text that is no JSON) taken
\* out: the same failure or success, the same Stuck entries, the same Held
\* entries.
C21_NonRecordLinesIgnored ==
    AnalyzeReturned =>
        LET ref == AnalyzeOutcome(SelectSeq(lines, IsRecord))
        IN  /\ result.nil = ref.failed
            /\ ~result.nil => /\ Range(result.Stuck) = ref.Stuck
                              /\ Range(result.Held) = ref.Held

\* C22: Analyze returns an error, and leaves the scanner loop before the end
\* of the stream, only when reading from the input fails; no line does that by
\* its content or its length.
C22_ErrorOnlyWhenReadFails ==
    (AnalyzeReturned /\ err # "nil") =>
        (lines # <<>> /\ lines[Len(lines)].kind = "ioerror")

\* the read from the input source failed after the lines before it were read
ReadFailed == lines # <<>> /\ lines[Len(lines)].kind = "ioerror"

\* C23: once Analyze or AnalyzeFile has returned, a failed read and a failed
\* open have produced a non-nil error together with a nil result, however many
\* events had been recorded before; a non-nil result comes with a nil error only.
C23_ErrorMeansNoResult ==
    apc = "done" =>
        /\ (ReadFailed \/ err = "open error") => (err # "nil" /\ result = NoResult)
        /\ err # "nil" => result = NoResult
        /\ ~result.nil => err = "nil"

\* C23 witness: the read failed at the third line, after a START and an
\* ACQUIRED had been recorded; the error is returned and the result is nil
C23_Witness ==
    /\ apc = "done"
    /\ Len(lines) = MaxLines
    /\ ReadFailed
    /\ DOMAIN starts # {}
    /\ DOMAIN acquires # {}
    /\ err = "read error"
    /\ result.nil

\* deadlog analyze has exited
Exited == apc = "done" /\ exit.exited

\* C24: when deadlog analyze has read its input without error, it has printed
\* the report of the result on standard output and nothing on standard error,
\* and its exit status is non-zero exactly when Stuck or Held is non-empty, and
\* zero otherwise.
C24_ExitStatusReflectsLists ==
    (Exited /\ err = "nil") =>
        /\ stdout = PrintReport(result)
        /\ stderr = <<>>
        /\ (exit.code # 0) <=> (result.Stuck # <<>> \/ result.Held # <<>>)
        /\ (result.Stuck = <<>> /\ result.Held = <<>>) => exit.code = 0

\* C24 witness: the input was read, nothing is stuck, one lock is held, and
\* the process has exited with a non-zero status after printing the report
C24_Witness ==
    /\ Exited
    /\ err = "nil"
    /\ result.Stuck = <<>>
    /\ Len(result.Held) = 1
    /\ exit.code = 1
    /\ stdout = PrintReport(result)

\* C25: when deadlog analyze could not open or read its input, it has printed
\* an error message on standard error, no report, and its exit status is
\* non-zero.
C25_FailureReportedNoReport ==
    (Exited /\ err # "nil") =>
        /\ stderr = <<"Error: " \o err>>
        /\ stdout = <<>>
        /\ exit.code # 0

\* C25 witness: the read failed after a record had been read; the process has
\* exited with status 1, the error on standard error and nothing on standard
\* output
C25_Witness ==
    /\ Exited
    /\ ReadFailed
    /\ DOMAIN starts # {}
    /\ stderr = <<"Error: read error">>
    /\ stdout = <<>>
    /\ exit.code = 1

\* every string field of e is valid UTF-8
ValidUTF8(e) ==
    \A s \in {e.Type, e.State, e.Name, e.Trace} : toValidUTF8(s) = s

\* the trace key is on the wire exactly when the trace is non-empty
TraceOmittedWhenEmpty == ("trace" \in DOMAIN wire.fields) <=> (event.Trace # "")

\* C26 as stated: any Event written by the WriterLogger and decoded again is
\* equal to the original in every field, the trace being left out of the line
\* when empty and read back as empty.
C26_RoundTrip ==
    wpc = "read" => (decoded = event /\ TraceOmittedWhenEmpty)

\* C26: an Event whose string fields are valid UTF-8, written by the
\* WriterLogger and decoded again, is equal to the original in every field, the
\* trace being left out of the line when empty and read back as empty.
C26_RoundTripValidUTF8 ==
    (wpc = "read" /\ ValidUTF8(event)) => (decoded = event /\ TraceOmittedWhenEmpty)

\* C26 witness: an event with a label and an empty trace has been written
\* without the trace key and read back equal
C26_Witness ==
    /\ wpc = "read"
    /\ event.Name = "a|b"
    /\ event.Trace = ""
    /\ event.ID = 0
    /\ "trace" \notin DOMAIN wire.fields
    /\ decoded = event

\* the events Analyze has decoded from the lines read so far
DecodedEvents ==
    {Unmarshal(lines[i]).e : i \in {j \in 1..Len(lines) : ~Unmarshal(lines[j]).err}}

\* C29: two decoded events have the same map key only if their kind, label and
\* id are all equal, whatever characters the kind and the label contain; and so
\* a key that has a START and no ACQUIRED of its own is listed in Stuck, whatever
\* other keys the stream holds.
C29_KeyGroupsEqualTriples ==
    /\ \A e1, e2 \in DecodedEvents : Key(e1) = Key(e2) => Triple(e1) = Triple(e2)
    /\ Returned =>
          \A t \in KeysWith("START") \ KeysWith("ACQUIRED") : t \in ListedKeys(result.Stuck)

\* no two records of the stream ls belong to the same key and the same phase
OnePerPhase(ls) ==
    \A i, j \in 1..Len(ls) :
        (i < j /\ ~Unmarshal(ls[i]).err /\ ~Unmarshal(ls[j]).err) =>
            LET e1 == Unmarshal(ls[i]).e
                e2 == Unmarshal(ls[j]).e
            IN  ~(Triple(e1) = Triple(e2) /\ e1.State = e2.State /\ e1.State \in States)

\* the orders in which the lines of a stream of n lines can arrive
LineOrders(n) ==
    {p \in [1..n -> 1..n] : \A i, j \in 1..n : p[i] = p[j] => i = j}

Permuted(ls, p) == [i \in 1..Len(ls) |-> ls[p[i]]]

\* the keys Analyze lists in Stuck and in Held for the stream ls
OutcomeKeys(ls) ==
    LET o == AnalyzeOutcome(ls)
    IN  [failed |-> o.failed,
         Stuck |-> {Triple(x) : x \in o.Stuck},
         Held |-> {Triple(x) : x \in o.Held}]

\* C27: for a stream in which each key has at most one event per phase, the
\* lines taken in any order give the same keys in Stuck and the same keys in
\* Held; and Analyze returns no error for the stream cut off at any line, unless
\* the read itself fails.
C27_OrderAndTruncation ==
    OnePerPhase(lines) =>
        /\ \A p \in LineOrders(Len(lines)) :
              OutcomeKeys(Permuted(lines, p)) = OutcomeKeys(lines)
        /\ (AnalyzeReturned /\ ~ReadFailed) => err = "nil"

\* the positions in the stream read of the records of phase `state` for key t
RecordsOf(t, state) == {i \in 1..Len(lines) : Carries(lines[i], t, state)}

\* the trace of line l: empty when the line has no trace key
TraceOf(l) == IF "trace" \in DOMAIN l.fields THEN l.fields["trace"] ELSE ""

\* the trace of the last record of phase `state` for key t
LastTrace(t, state) ==
    LET at == RecordsOf(t, state)
        last == CHOOSE i \in at : \A j \in at : j <= i
    IN  TraceOf(lines[last])

\* every entry of the list belongs to a key with a record of phase `state`
\* and carries the trace of the last such record
CarriesLastTrace(list, state) ==
    \A i \in 1..Len(list) :
        /\ RecordsOf(Triple(list[i]), state) # {}
        /\ list[i].Trace = LastTrace(Triple(list[i]), state)

\* C28: several events of the same phase for the same key do not make Analyze
\* fail (an error comes from the scanner only); no key occurs twice in Stuck or
\* twice in Held; each Stuck entry carries the trace of the last START of its
\* key and each Held entry the trace of the last ACQUIRED of its key, in the
\* order of the input.
C28_DuplicatesLastWins ==
    /\ (AnalyzeReturned /\ err # "nil") => lines[Len(lines)].kind \in {"ioerror", "toolong"}
    /\ Returned =>
          /\ Cardinality(ListedKeys(result.Stuck)) = Len(result.Stuck)
          /\ Cardinality(ListedKeys(result.Held)) = Len(result.Held)
          /\ CarriesLastTrace(result.Stuck, "START")
          /\ CarriesLastTrace(result.Held, "ACQUIRED")

\* C28 witness: two START records of one key, the first without a trace and the
\* second with one, then an ACQUIRED of another key; Analyze has returned that
\* key once in Stuck, with the trace of the second START
C28_Witness ==
    /\ Returned
    /\ Len(lines) = 3
    /\ Carries(lines[1], <<"LOCK", "a|b", 1>>, "START")
    /\ Carries(lines[2], <<"LOCK", "a|b", 1>>, "START")
    /\ TraceOf(lines[1]) = ""
    /\ TraceOf(lines[2]) = "caller:1"
    /\ Carries(lines[3], <<"WLOCK", "a|b", 2>>, "ACQUIRED")
    /\ Len(result.Stuck) = 1
    /\ result.Stuck[1].Trace = "caller:1"
    /\ Len(result.Held) = 1

\* C30: with a sink installed, whenever an acquire call (Lock, RLock, LockFunc
\* or RLockFunc) waits for the underlying lock, the START event of that call has
\* been delivered to the sink and no ACQUIRED event of that call has.
C30_BlockedStartedNotAcquired ==
    \A a \in Attempts : Blocked(a) =>
        /\ logFunc[att[a].mu] = "sink"
        /\ PhaseOf(a, "START") # {}
        /\ PhaseOf(a, "ACQUIRED") = {}
        /\ \A i \in PhaseOf(a, "START") :
              <<sink[i].Type, sink[i].ID>> = <<att[a].typ, att[a].id>>

\* C30 witness: a LockFunc call waits behind a caller that has returned from
\* RLock on the same lock and still holds it; the waiting call's START is the
\* last event in the sink
C30_Witness ==
    \E a, b \in Attempts :
        /\ Blocked(a)
        /\ att[a].typ = "LOCK"
        /\ att[b].typ = "RWLOCK" /\ att[b].mu = att[a].mu
        /\ att[b].pc = "returned" /\ b \in holds
        /\ PhaseOf(a, "START") = {Len(sink)}
        /\ PhaseOf(b, "ACQUIRED") # {}

\* C33: whatever stream Analyze has read, no key (kind, label, id) is listed
\* both in Stuck and in Held of the result it returns.
C33_StuckHeldDisjoint ==
    Returned => ListedKeys(result.Stuck) \cap ListedKeys(result.Held) = {}

\* C33 witness: one key has a START and an ACQUIRED and is listed in Held,
\* another has a START only and is listed in Stuck
C33_Witness ==
    /\ Returned
    /\ Len(lines) = 3
    /\ \E t \in KeysWith("START") \cap KeysWith("ACQUIRED") :
          /\ t \in ListedKeys(result.Held)
          /\ t \notin ListedKeys(result.Stuck)
    /\ \E t \in KeysWith("START") \ KeysWith("ACQUIRED") :
          /\ t \in ListedKeys(result.Stuck)
          /\ t \notin ListedKeys(result.Held)

\* the number of entries with a trace among the first n entries of the list
TraceCount(list, n) == Cardinality({j \in 1..n : list[j].Trace # ""})

\* the number of lines of the section of a list, and the line of its i-th entry
SectionLen(list) ==
    IF list = <<>> THEN 1 ELSE Len(list) + TraceCount(list, Len(list))
EntryAt(list, i) == i + TraceCount(list, i - 1)

\* the lines after line `base` of the output are the section of the list: one
\* row per entry in list order, "(unnamed)" for an empty label, a trace line
\* after the row of an entry with a trace, "(none)" for an empty list
SectionPrinted(out, base, list) ==
    IF list = <<>>
    THEN out[base + 1] = "  (none)"
    ELSE \A i \in 1..Len(list) :
            LET info == list[i]
                at == base + EntryAt(list, i)
                label == IF info.Name = "" THEN "(unnamed)" ELSE info.Name
            IN  /\ out[at] = "  " \o PadRight(info.Type, 5) \o " | " \o PadRight(label, 20)
                                  \o " | ID: " \o ToString(info.ID)
                /\ info.Trace # "" => out[at + 1] = "         Trace: " \o info.Trace

\* the report of result r, as PrintReport is to write it
ReportPrinted(out, r) ==
    LET stuckAt == 5
        heldAt == stuckAt + SectionLen(r.Stuck) + 2
        summaryAt == heldAt + SectionLen(r.Held) + 2
    IN  /\ Len(out) = summaryAt + 3
        /\ out[stuckAt] = "=== STUCK: Started but never acquired (waiting for lock) ==="
        /\ SectionPrinted(out, stuckAt, r.Stuck)
        /\ out[heldAt] = "=== HELD: Acquired but never released (holding lock) ==="
        /\ SectionPrinted(out, heldAt, r.Held)
        /\ out[summaryAt] = "=== SUMMARY ==="
        /\ out[summaryAt + 1] = "  Stuck waiting: " \o ToString(Len(r.Stuck))
        /\ out[summaryAt + 2] = "  Held:          " \o ToString(Len(r.Held))

\* C34: the report PrintReport has written holds one row per Stuck entry and
\* one per Held entry in list order, with "(unnamed)" for an empty label and
\* "(none)" for an empty list, a trace line exactly after the rows of entries
\* with a non-empty trace, and summary counts equal to the lengths of the two
\* lists; and printing leaves the Result as it was.
C34_ReportMatchesResult ==
    /\ []((Exited /\ err = "nil") => ReportPrinted(stdout, result))
    /\ [][runAnalyze => result' = result]_vars

\* C34 witness: the report of a result with two Stuck entries, one without a
\* label and one with a trace, and an empty Held list has been printed
C34_Witness ==
    /\ Exited
    /\ err = "nil"
    /\ Len(result.Stuck) = 2
    /\ \E i \in 1..2 : result.Stuck[i].Name = "" /\ result.Stuck[i].Trace = ""
    /\ \E i \in 1..2 : result.Stuck[i].Name # "" /\ result.Stuck[i].Trace # ""
    /\ result.Held = <<>>
    /\ ReportPrinted(stdout, result)
    /\ Len(stdout) = 16

\* the positions in the sink between positions i and j
Between(i, j) == {k \in 1..Len(sink) : i < k /\ k < j}

\* position k of the sink holds the ACQUIRED event of an acquire call other
\* than a on the lock of a, of one of the given kinds
OtherAcquired(k, a, kinds) ==
    /\ sink[k].State = "ACQUIRED"
    /\ sinkAtt[k] # a
    /\ sinkAtt[k] \in Attempts
    /\ att[sinkAtt[k]].mu = att[a].mu
    /\ sink[k].Type \in kinds

\* C31: with every release function invoked at most once and Unlock/RUnlock
\* called by holders only, the sink receives no ACQUIRED of another operation
\* on the same lock between the ACQUIRED and the RELEASED of a LockFunc call
\* (LOCK), and no ACQUIRED of an exclusive operation (LOCK, WLOCK) on the same
\* lock between the ACQUIRED and the RELEASED of an RLockFunc call (RLOCK).
C31_NoAcquiredInsideTrackedHold ==
    \A a \in Attempts :
        \A i \in PhaseOf(a, "ACQUIRED"), j \in PhaseOf(a, "RELEASED") :
            \A k \in Between(i, j) :
                /\ att[a].typ = "LOCK" => ~OtherAcquired(k, a, Kinds)
                /\ att[a].typ = "RLOCK" => ~OtherAcquired(k, a, ExclusiveKinds)

\* C31 witness: a second call on the same lock delivered its START between the
\* ACQUIRED and the RELEASED of a LockFunc call and its ACQUIRED after that
\* RELEASED
C31_Witness ==
    \E a, b \in Attempts :
        /\ a # b
        /\ att[a].typ = "LOCK" /\ att[b].mu = att[a].mu
        /\ \E i \in PhaseOf(a, "ACQUIRED"), j \in PhaseOf(a, "RELEASED") :
              /\ \E k \in Between(i, j) : k \in PhaseOf(b, "START")
              /\ \E l \in PhaseOf(b, "ACQUIRED") : j < l

\* acquire call a is a shared one (RLock or RLockFunc) waiting in m.mu.RLock()
ReaderWaits(a) == att[a].pc = "wait" /\ att[a].typ \in {"RWLOCK", "RLOCK"}

\* no exclusive acquire call (Lock, LockFunc) has been made on lock m
ReadersOnly(m) == \A c \in Attempts : att[c].mu = m => att[c].typ \notin ExclusiveKinds

\* C32: a shared acquire call that waits while no writer holds or waits for the
\* lock can be granted at once, however many readers hold the lock already, and
\* the readers in place keep their holds; and on a lock that only readers use
\* every waiting reader eventually returns from its acquire call, whether or
\* not the other readers have released.
C32_ReadersShare ==
    /\ [](\A a \in Attempts :
            (ReaderWaits(a) /\ ~WriterBusy(att[a].mu)) => ENABLED muRLock(a))
    /\ [][\A a \in Attempts : muRLock(a) => holds' = holds \cup {a}]_vars
    /\ \A b \in Attempts, m \in Mutexes :
          [](ReadersOnly(m)) => ((ReaderWaits(b) /\ att[b].mu = m) ~> att[b].pc = "returned")

\* C32 witness: two callers, one of RLock and one of RLockFunc, have returned
\* and hold the same lock at the same time
C32_Witness ==
    \E a, b \in Attempts :
        /\ att[a].typ = "RWLOCK" /\ att[b].typ = "RLOCK"
        /\ att[a].mu = att[b].mu
        /\ CallerHolds(a) /\ CallerHolds(b)
        /\ {a, b} \subseteq holds
        /\ att[a].pc = "returned" /\ att[b].pc = "returned"

====
